---- MODULE Spec2Model ----
(***************************************************************************)
(* Model of the blueprint-mongodb ResourceController: the validate and     *)
(* execute pipelines that every generated REST action runs for one         *)
(* request.  Hooks, the ORM, the messaging bus and the response object are *)
(* the environment: each of their answers is a nondeterministic choice,    *)
(* and every call made to them is recorded, in order, in `log`.            *)
(*                                                                         *)
(* The six actions create, get, getAll, update, delete and count follow    *)
(* src/unnamed/part_001; getFirst exists only in src/unnamed/part_000.     *)
(***************************************************************************)
EXTENDS Integers, Sequences, FiniteSets, TLC

(***************************************************************************)
(* Bounds of the model.                                                    *)
(***************************************************************************)
MaxTime == 2          \* last-modified times and header dates are 0..MaxTime
MaxLen == 2           \* longest result list the ORM returns
MaxCount == 2         \* largest number Model.count reports
TicksPerSecond == 2   \* time units per second (toUTCString drops fractions)

VARIABLES
  pc,            \* where the current request is in its pipeline
  action,        \* the controller action that serves the current request
  req,           \* the request object (mutable: getAll deletes query.options)
  on,            \* the hooks the action was built with (opts.on)
  locals,        \* variables captured by the closures of execute
  cur,           \* the value the pending hook / ORM call was handed
  log,           \* every call to a hook, the ORM, messaging and res, in order
  res,           \* the response object
  callbacks,     \* the calls of the framework callback
  _eventPrefix,  \* opts.eventPrefix the controller was constructed with
  _ids,          \* Population: the id strings claimed so far, per plural
  population,    \* Population: the fetched models, per plural
  joins,         \* Population: the pending async.each / async.eachOf calls
  fetches,       \* Population: every populate.populate call, in order
  completions,   \* Population: the calls of the top-level callbacks
  ncalls,        \* Population: number of top-level calls made so far
  skipped,       \* Population: for every id a visitor found already claimed,
                 \* the number of fetch results population held at that time
  connections,   \* connection manager: readyState of each connection
  listener       \* where the app.start listener is

ctlVars == <<pc, action, req, on, locals, cur, log, res, callbacks, _eventPrefix>>
popVars == <<_ids, population, joins, fetches, completions, ncalls, skipped>>
connVars == <<connections, listener>>
vars == <<ctlVars, popVars, connVars>>

(***************************************************************************)
(* JavaScript values.                                                      *)
(***************************************************************************)
Undefined == [kind |-> "undefined"]
Null == [kind |-> "null"]
Bool(b) == [kind |-> "bool", b |-> b]
Num(n) == [kind |-> "num", n |-> n]
Doc(t) == [kind |-> "doc", lm |-> t]          \* a document and its getLastModified ()
List(s) == [kind |-> "list", items |-> s]     \* an array of documents
EmptyObj == [k \in {} |-> ""]                 \* the object {}

Falsy(v) ==
  \/ v.kind \in {"undefined", "null"}
  \/ v.kind = "num" /\ v.n = 0
  \/ v.kind = "bool" /\ ~v.b

Times == 0..MaxTime
Docs == {Doc(t) : t \in Times}
SeqsUpTo(S, n) == UNION {[1..k -> S] : k \in 0..n}
Lists == {List(s) : s \in SeqsUpTo(Docs, MaxLen)}

\* Object helpers: objects are functions from their keys.
Has(o, k) == k \in DOMAIN o
Truthy(o, k) == Has(o, k) /\ o[k] # ""
omit(o, keys) == [k \in DOMAIN o \ keys |-> o[k]]
With(o, k, v) == (k :> v) @@ o
Get(o, k) == IF Has(o, k) THEN o[k] ELSE "undefined"

HttpError(status, msg) == [kind |-> "HttpError", statusCode |-> status, message |-> msg]
HookError(h) == [kind |-> "Error", from |-> h]
ValidationErrors == [kind |-> "validationErrors"]

Call(name, arg) == [call |-> name, arg |-> arg]
\* The answer of the environment to the call `name`.
Answer(lg, name, a) == Append(lg, Call(name \o ".answer", a))

(***************************************************************************)
(* The controller.                                                         *)
(***************************************************************************)
_name == "book"
_id == "bookId"
pluralize(n) == IF n = "book" THEN "books" ELSE n \o "s"
_pluralize == pluralize(_name)

computeEventName_alwaysDot(act) ==
  LET prefix0 == IF _eventPrefix = "undefined" THEN "" ELSE _eventPrefix
  IN  prefix0 \o "." \o _name \o "." \o act

computeEventName(act) ==
  LET prefix0 == IF _eventPrefix = "undefined" THEN "" ELSE _eventPrefix
      prefix == IF Len(prefix0) # 0 THEN prefix0 \o "." ELSE prefix0
  IN  prefix \o _name \o "." \o act

(***************************************************************************)
(* Dates.  Date.parse of an unparsable header is NaN.                      *)
(***************************************************************************)
NaN == -1
NoHeader == [kind |-> "absent"]
DateHeader(t) == [kind |-> "date", t |-> t]
InvalidHeader == [kind |-> "invalid"]
Headers == {NoHeader, InvalidHeader} \cup {DateHeader(t) : t \in Times}

DateParse(h) == IF h.kind = "date" THEN h.t ELSE NaN

toUTCString(t) == [utc |-> t \div TicksPerSecond]

\* DateUtils.compare (a, b): -1, 0 or 1 for two dates; any answer for NaN.
CompareResults == {-1, 0, 1, 2}
DateUtilsCompare(a, b) ==
  IF a = NaN \/ b = NaN THEN CompareResults
  ELSE IF a < b THEN {-1} ELSE IF a = b THEN {0} ELSE {1}

(***************************************************************************)
(* Default hooks.                                                          *)
(***************************************************************************)
__onPrepareOptions(r, options) == EmptyObj
__onPrepareProjection(r) == EmptyObj
__onUpdateFilter(r, filter) == filter
__onPrepareDocument(r, doc) == doc
__onPostExecute(r, result) == result

emit_dropped(lg, eventName, result) == lg

\* messaging.emit (eventName, result)
emit(lg, eventName, result) ==
  Append(lg, Call("emit", [event |-> eventName, payload |-> result]))

envelope_plural(key, data) == pluralize(key) :> data

\* var result = {}; result[key] = data;
envelope(key, data) == key :> data

(***************************************************************************)
(* Completion handlers.                                                    *)
(***************************************************************************)
makeDbCompletionHandler_swapped(errMsg, err, result) ==
  IF err THEN [err |-> HttpError(404, "Not Found"), result |-> Undefined]
  ELSE IF Falsy(result) THEN [err |-> HttpError(400, errMsg), result |-> Undefined]
  ELSE [err |-> Null, result |-> result]

makeDbCompletionHandler(errMsg, err, result) ==
  IF err THEN [err |-> HttpError(400, errMsg), result |-> Undefined]
  ELSE IF Falsy(result) THEN [err |-> HttpError(404, "Not Found"), result |-> Undefined]
  ELSE [err |-> Null, result |-> result]

\* JSON.stringify drops the keys whose value is undefined.
json(v) ==
  IF "kind" \in DOMAIN v THEN v
  ELSE [k \in {x \in DOMAIN v : v[x] # Undefined} |-> v[k]]

makeTaskCompletionHandler_rewrites(lg, r, err, result) ==
  /\ pc' = "done"
  /\ cur' = Undefined
  /\ IF err # Null
       THEN /\ callbacks' = Append(callbacks, [phase |-> "execute",
                                               err |-> HttpError(400, "Bad Request")])
            /\ log' = lg
            /\ res' = r
       ELSE /\ callbacks' = callbacks
            /\ log' = Append(lg, Call("res.json", [status |-> 200]))
            /\ res' = [r EXCEPT !.status = 200, !.body = json(result), !.sent = @ + 1]

makeTaskCompletionHandler_noReturn(lg, r, err, result) ==
  /\ pc' = "done"
  /\ cur' = Undefined
  /\ callbacks' = IF err # Null THEN Append(callbacks, [phase |-> "execute", err |-> err])
                                ELSE callbacks
  /\ log' = Append(lg, Call("res.json", [status |-> 200]))
  /\ res' = [r EXCEPT !.status = 200, !.body = json(result), !.sent = @ + 1]

\* __blueprint_task_complete, run with the log lg and the response r the
\* calling stage has produced so far.
makeTaskCompletionHandler(lg, r, err, result) ==
  /\ pc' = "done"
  /\ cur' = Undefined
  /\ IF err # Null
       THEN /\ callbacks' = Append(callbacks, [phase |-> "execute", err |-> err])
            /\ log' = lg
            /\ res' = r
       ELSE /\ callbacks' = callbacks
            /\ log' = Append(lg, Call("res.json", [status |-> 200]))
            /\ res' = [r EXCEPT !.status = 200, !.body = json(result), !.sent = @ + 1]

(***************************************************************************)
(* Requests.                                                               *)
(***************************************************************************)
Actions == {"create", "get", "getAll", "update", "delete", "count", "getFirst"}

IdParams == {EmptyObj, _id :> "1"}
BodyDoc == [kind |-> "body", rev |-> 0]
PreparedDoc == [kind |-> "body", rev |-> 1]

\* req.query.options as the query-string parser delivers it.
QueryOptions ==
  UNION {[K -> {"1"}] : K \in SUBSET {"skip", "limit", "sort", "populate"}}
  \cup {"skip" :> ""}

Queries(a) ==
  IF a = "get" THEN {EmptyObj, "populate" :> "1"}
  ELSE IF a = "getAll" THEN {EmptyObj} \cup {"options" :> o : o \in QueryOptions}
  ELSE IF a = "getFirst"
    THEN {EmptyObj, "title" :> "x"}
         \cup {With(q, "options", o) : q \in {EmptyObj, "title" :> "x"},
                                       o \in {EmptyObj, "sort" :> "1"}}
  ELSE IF a = "count" THEN {EmptyObj, "title" :> "x"}
  ELSE {EmptyObj}

Requests(a) ==
  [params  : IF a \in {"get", "update", "delete"} THEN IdParams ELSE {EmptyObj},
   headers : IF a \in {"get", "getAll"} THEN Headers ELSE {NoHeader},
   query   : Queries(a),
   body    : IF a \in {"create", "update"} THEN {BodyDoc} ELSE {Undefined}]

Hooks == {"prepareOptions"}

NewResponse == [status |-> 0, body |-> Undefined, headers |-> EmptyObj, sent |-> 0]

\* function Population (populators): nothing claimed, nothing fetched.
Population ==
  /\ _ids = EmptyObj
  /\ population = EmptyObj
  /\ joins = <<>>
  /\ fetches = <<>>
  /\ completions = <<>>
  /\ ncalls = 0
  /\ skipped = {}

\* The connection manager before the application has started.
NotStarted(names) ==
  /\ connections = [c \in names |-> 0]
  /\ listener = "idle"

Init ==
  /\ Population
  /\ NotStarted({})
  /\ pc = "idle"
  /\ action = "none"
  /\ req = [params |-> EmptyObj, headers |-> NoHeader, query |-> EmptyObj,
            body |-> Undefined]
  /\ on = {}
  /\ locals = EmptyObj
  /\ cur = Undefined
  /\ log = <<>>
  /\ res = NewResponse
  /\ callbacks = <<>>
  /\ _eventPrefix \in {"undefined", "", "app"}

\* The framework routes a request to one of the actions.  The controller
\* keeps nothing from one request to the next, so one request is followed
\* from its arrival to its end.
Receive ==
  /\ pc = "idle"
  /\ \E a \in Actions, o \in SUBSET Hooks : \E r \in Requests(a) :
       /\ action' = a
       /\ req' = r
       /\ on' = IF a \in {"getAll", "update"} THEN o ELSE {}
  /\ pc' = "validate"
  /\ locals' = EmptyObj
  /\ cur' = Undefined
  /\ log' = <<>>
  /\ res' = NewResponse
  /\ callbacks' = <<>>
  /\ UNCHANGED _eventPrefix
  /\ UNCHANGED <<popVars, connVars>>

(***************************************************************************)
(* What the environment may answer.                                        *)
(***************************************************************************)
Ok(v) == [err |-> Null, value |-> v]
Fail(e) == [err |-> e, value |-> Undefined]

Projections == {EmptyObj, "title" :> 1, "title" :> 0}

\* A prepareFilter hook passes the filter on, changed or not, or fails.
FilterAnswers(filter) ==
  {Ok(__onUpdateFilter(req, filter)), Ok(With(filter, "owner", "me")),
   Fail(HookError("prepareFilter"))}

ProjectionAnswers ==
  {Ok(p) : p \in Projections} \cup {Fail(HookError("prepareProjection"))}

\* on.prepareOptions || __onPrepareOptions
OptionsAnswers(options) ==
  IF "prepareOptions" \in on
    THEN {Ok(options), Ok(With(options, "lean", "1")), Fail(HookError("prepareOptions"))}
    ELSE {Ok(__onPrepareOptions(req, options))}

DocumentAnswers(doc) ==
  {Ok(__onPrepareDocument(req, doc)), Ok(PreparedDoc), Fail(HookError("prepareDocument"))}

\* A postExecute hook passes the result on, or something else, or fails.
PostExecuteAnswers(result) ==
  {Ok(__onPostExecute(req, result)), Fail(HookError("postExecute"))}
  \cup (IF result.kind = "list"
          THEN {Ok(List(<<>>)), Ok(List(<<Doc(0)>>))}
          ELSE {Ok([kind |-> "custom"])})

\* The ORM reports an error, or no error and a result that may be null.
DbAnswers(method) ==
  {[err |-> TRUE, result |-> Undefined], [err |-> FALSE, result |-> Null]}
  \cup [err : {FALSE},
        result : IF method = "find" THEN Lists
                 ELSE IF method = "find.limit(1)" THEN {List(s) : s \in SeqsUpTo(Docs, 1)}
                 ELSE IF method = "count" THEN {Num(n) : n \in 0..MaxCount}
                 ELSE Docs]

PopulateAnswers ==
  {[err |-> Null, details |-> "authors" :> List(<<>>)],
   [err |-> HookError("populate"), details |-> EmptyObj]}

\* async.parallel: with several failing tasks the first error to arrive wins.
ParallelErrors(answers) == {a.err : a \in {x \in answers : x.err # Null}}

(***************************************************************************)
(* validate                                                                *)
(***************************************************************************)
ValidateCallback(err) == Append(callbacks, [phase |-> "validate", err |-> err])

\* onAuthorize (req, callback): the hook answers in a later step.
InvokeAuthorize(lg) ==
  /\ log' = Append(lg, Call("authorize", req))
  /\ pc' = "authorize"
  /\ callbacks' = callbacks

validateBody_noStop(lg, schema) ==
  \E errors \in {Null, ValidationErrors} :
    InvokeAuthorize(Answer(Append(lg, Call("checkBody", [schema |-> schema, req |-> req])),
                           "validationErrors", [errors |-> errors]))

\* The async.series of create and update: req.checkBody (schema) and
\* req.validationErrors (), then onAuthorize.
validateBody(lg, schema) ==
  \E errors \in {Null, ValidationErrors} :
    LET lg1 == Answer(Append(lg, Call("checkBody", [schema |-> schema, req |-> req])),
                      "validationErrors", [errors |-> errors])
    IN  IF errors # Null
          THEN /\ log' = lg1
               /\ callbacks' = ValidateCallback(errors)
               /\ pc' = "done"
          ELSE InvokeAuthorize(lg1)

\* !req.params[id]
missingId_unchecked(r) == FALSE
missingId(r) == ~Truthy(r.params, _id)

checkIdThenAuthorize ==
  /\ pc = "validate"
  /\ action \in {"get", "update", "delete", "get.part_000"}
  /\ IF missingId(req)
       THEN /\ callbacks' = ValidateCallback(HttpError(400, "Missing resource id"))
            /\ pc' = "done"
            /\ log' = log
       ELSE LET lg == Append(log, Call("next", req))
            IN  IF action = "update" THEN validateBody(lg, "_updateValidation")
                                     ELSE InvokeAuthorize(lg)
  /\ UNCHANGED <<action, req, on, locals, cur, res, _eventPrefix>>
  /\ UNCHANGED <<popVars, connVars>>

create_validate ==
  /\ pc = "validate"
  /\ action = "create"
  /\ validateBody(log, "_createValidation")
  /\ UNCHANGED <<action, req, on, locals, cur, res, _eventPrefix>>
  /\ UNCHANGED <<popVars, connVars>>

\* getAll, count and getFirst: validate is onAuthorize itself.
onAuthorize_validate ==
  /\ pc = "validate"
  /\ action \in {"getAll", "count", "getFirst"}
  /\ InvokeAuthorize(log)
  /\ UNCHANGED <<action, req, on, locals, cur, res, _eventPrefix>>
  /\ UNCHANGED <<popVars, connVars>>

\* The authorize hook answers; without an error the framework goes on to
\* execute.
onAuthorize_done ==
  /\ pc = "authorize"
  /\ \E err \in {Null, HookError("authorize")} :
       /\ callbacks' = ValidateCallback(err)
       /\ pc' = IF err = Null THEN "execute" ELSE "done"
  /\ UNCHANGED <<action, req, on, locals, cur, log, res, _eventPrefix>>
  /\ UNCHANGED <<popVars, connVars>>

(***************************************************************************)
(* create                                                                  *)
(***************************************************************************)
create_execute ==
  /\ pc = "execute"
  /\ action = "create"
  /\ LET doc == req.body
     IN  /\ log' = Append(log, Call("prepareDocument", [doc |-> doc]))
         /\ cur' = doc
  /\ pc' = "prepare"
  /\ UNCHANGED <<action, req, on, locals, res, callbacks, _eventPrefix>>
  /\ UNCHANGED <<popVars, connVars>>

create_onPrepared ==
  /\ pc = "prepare"
  /\ action = "create"
  /\ \E a \in DocumentAnswers(cur) :
       LET lg == Answer(log, "prepareDocument", a) IN
       IF a.err # Null
         THEN makeTaskCompletionHandler(lg, res, a.err, Undefined)
         ELSE /\ log' = Append(lg, Call("orm", [method |-> "create", doc |-> a.value]))
              /\ cur' = a.value
              /\ pc' = "db"
              /\ UNCHANGED <<res, callbacks>>
  /\ UNCHANGED <<action, req, on, locals, _eventPrefix>>
  /\ UNCHANGED <<popVars, connVars>>

create_onDb ==
  /\ pc = "db"
  /\ action = "create"
  /\ \E d \in DbAnswers("create") :
       LET lg == Append(log, Call("orm.answer", d))
           h == makeDbCompletionHandler("Failed to create resource", d.err, d.result)
           result == h.result
           lastModified == toUTCString(result.lm)
       IN  IF h.err # Null
             THEN makeTaskCompletionHandler(lg, res, h.err, Undefined)
             ELSE /\ log' = emit(lg, computeEventName("created"), result)
                            \o <<Call("res.set", [value |-> lastModified]),
                                 Call("postExecute", result)>>
                  /\ res' = [res EXCEPT !.headers = With(@, "Last-Modified", lastModified)]
                  /\ cur' = result
                  /\ pc' = "postExecute"
                  /\ UNCHANGED callbacks
  /\ UNCHANGED <<action, req, on, locals, _eventPrefix>>
  /\ UNCHANGED <<popVars, connVars>>

create_onPostExecute ==
  /\ pc = "postExecute"
  /\ action = "create"
  /\ \E a \in PostExecuteAnswers(cur) :
       IF a.err # Null
         THEN makeTaskCompletionHandler(Answer(log, "postExecute", a), res, a.err, Undefined)
         ELSE LET result == envelope(_name, a.value)
              IN  makeTaskCompletionHandler(Append(Answer(log, "postExecute", a), Call("envelope", result)),
                                            res, Null, result)
  /\ UNCHANGED <<action, req, on, locals, _eventPrefix>>
  /\ UNCHANGED <<popVars, connVars>>

(***************************************************************************)
(* get                                                                     *)
(***************************************************************************)
get_execute ==
  /\ pc = "execute"
  /\ action = "get"
  /\ LET rcId == Get(req.params, _id)
         filter == "_id" :> rcId
     IN  /\ log' = log \o <<Call("prepareFilter", filter), Call("prepareProjection", req)>>
         /\ locals' = [filter |-> filter]
  /\ pc' = "prepare"
  /\ UNCHANGED <<action, req, on, cur, res, callbacks, _eventPrefix>>
  /\ UNCHANGED <<popVars, connVars>>

get_onPrepared ==
  /\ pc = "prepare"
  /\ action = "get"
  /\ \E f \in FilterAnswers(locals.filter), p \in ProjectionAnswers :
       LET lg == Answer(Answer(log, "prepareFilter", f), "prepareProjection", p) IN
       IF ParallelErrors({f, p}) # {}
         THEN \E e \in ParallelErrors({f, p}) :
                makeTaskCompletionHandler(lg, res, e, Undefined)
         ELSE LET query == [filter |-> f.value, projection |-> p.value]
              IN  /\ log' = Append(lg, Call("orm", [method |-> "findOne",
                                                     filter |-> query.filter,
                                                     projection |-> query.projection]))
                  /\ pc' = "db"
                  /\ UNCHANGED <<cur, res, callbacks>>
  /\ UNCHANGED <<action, req, on, locals, _eventPrefix>>
  /\ UNCHANGED <<popVars, connVars>>

\* DateUtils.compare (date, lastModified) !== -1
notModifiedSince_later(c) == c = 1
notModifiedSince(c) == c # -1

get_onDb ==
  /\ pc = "db"
  /\ action = "get"
  /\ \E d \in DbAnswers("findOne") :
       LET lg == Append(log, Call("orm.answer", d))
           h == makeDbCompletionHandler("Failed to retrieve resource", d.err, d.result)
           result == h.result
           lastModified == result.lm
           res1 == [res EXCEPT !.headers = With(@, "Last-Modified", toUTCString(lastModified))]
           lg1 == Append(lg, Call("res.set", [value |-> toUTCString(lastModified)]))
           date == DateParse(req.headers)
       IN  IF h.err # Null
             THEN makeTaskCompletionHandler(lg, res, h.err, Undefined)
             ELSE \E c \in (IF req.headers # NoHeader
                              THEN DateUtilsCompare(date, lastModified) ELSE {-1}) :
                    IF req.headers # NoHeader /\ notModifiedSince(c)
                      THEN makeTaskCompletionHandler(lg1, res1, HttpError(304, "Not Changed"),
                                                     Undefined)
                      ELSE /\ log' = Append(lg1, Call("postExecute", result))
                           /\ res' = res1
                           /\ cur' = result
                           /\ pc' = "postExecute"
                           /\ UNCHANGED callbacks
  /\ UNCHANGED <<action, req, on, locals, _eventPrefix>>
  /\ UNCHANGED <<popVars, connVars>>

get_onPostExecute ==
  /\ pc = "postExecute"
  /\ action = "get"
  /\ \E a \in PostExecuteAnswers(cur) :
       IF a.err # Null
         THEN makeTaskCompletionHandler(Answer(log, "postExecute", a), res, a.err, Undefined)
         ELSE LET result == envelope(_name, a.value)
                  lg1 == Append(Answer(log, "postExecute", a), Call("envelope", result))
              IN  IF ~Truthy(req.query, "populate")
                    THEN makeTaskCompletionHandler(lg1, res, Null, result)
                    ELSE /\ log' = Append(lg1, Call("populate", a.value))
                         /\ cur' = result
                         /\ pc' = "populate"
                         /\ UNCHANGED <<res, callbacks>>
  /\ UNCHANGED <<action, req, on, locals, _eventPrefix>>
  /\ UNCHANGED <<popVars, connVars>>

\* The callback of populate: its error is ignored.
get_onPopulate ==
  /\ pc = "populate"
  /\ action = "get"
  /\ \E a \in PopulateAnswers :
       makeTaskCompletionHandler(log, res, Null, a.details @@ cur)
  /\ UNCHANGED <<action, req, on, locals, _eventPrefix>>
  /\ UNCHANGED <<popVars, connVars>>

(***************************************************************************)
(* getAll                                                                  *)
(***************************************************************************)
getAll_execute ==
  /\ pc = "execute"
  /\ action = "getAll"
  /\ LET opts == IF Has(req.query, "options") THEN req.query["options"] ELSE EmptyObj
         options == [k \in {x \in {"skip", "limit", "sort"} :
                              Has(req.query, "options") /\ Truthy(opts, x)} |-> opts[k]]
         query == omit(req.query, {"options"})
     IN  /\ req' = [req EXCEPT !.query = query]
         /\ locals' = [opts |-> opts, options |-> options]
         /\ log' = log \o <<Call("prepareFilter", query), Call("prepareProjection", req'),
                            Call("prepareOptions", options)>>
  /\ pc' = "prepare"
  /\ UNCHANGED <<action, on, cur, res, callbacks, _eventPrefix>>
  /\ UNCHANGED <<popVars, connVars>>

getAll_onPrepared ==
  /\ pc = "prepare"
  /\ action = "getAll"
  /\ \E f \in FilterAnswers(req.query), p \in ProjectionAnswers,
        o \in OptionsAnswers(locals.options) :
       LET lg == Answer(Answer(Answer(log, "prepareFilter", f),
                        "prepareProjection", p), "prepareOptions", o) IN
       IF ParallelErrors({f, p, o}) # {}
         THEN \E e \in ParallelErrors({f, p, o}) :
                makeTaskCompletionHandler(lg, res, e, Undefined)
         ELSE LET query == [filter |-> f.value, projection |-> p.value, options |-> o.value]
              IN  /\ log' = Append(lg, Call("orm", [method |-> "find",
                                                     filter |-> query.filter,
                                                     projection |-> query.projection,
                                                     options |-> query.options]))
                  /\ pc' = "db"
                  /\ UNCHANGED <<cur, res, callbacks>>
  /\ UNCHANGED <<action, req, on, locals, _eventPrefix>>
  /\ UNCHANGED <<popVars, connVars>>

\* async.some (data, compare (date, item.getLastModified ()) === -1): the
\* answers it can give.
processIfModifiedSince_orEqual(date, data) ==
  {b \in BOOLEAN :
     IF b THEN \E i \in 1..Len(data) : DateUtilsCompare(date, data[i].lm) # {1}
          ELSE \A i \in 1..Len(data) : 1 \in DateUtilsCompare(date, data[i].lm)}

processIfModifiedSince(date, data) ==
  {b \in BOOLEAN :
     IF b THEN \E i \in 1..Len(data) : -1 \in DateUtilsCompare(date, data[i].lm)
          ELSE \A i \in 1..Len(data) : DateUtilsCompare(date, data[i].lm) # {-1}}

reduceLastModified_keepsFirst(memo, items) == memo

\* async.reduce of setHeaders over data.slice (1), starting from memo.
RECURSIVE reduceLastModified(_, _)
reduceLastModified(memo, items) ==
  IF items = <<>> THEN memo
  ELSE LET lastModified == Head(items).lm
       IN  reduceLastModified(IF DateUtilsCompare(memo, lastModified) = {-1}
                                THEN lastModified ELSE memo,
                              Tail(items))

setHeaders(data) == toUTCString(reduceLastModified(data[1].lm, Tail(data)))

getAll_onDb ==
  /\ pc = "db"
  /\ action = "getAll"
  /\ \E d \in DbAnswers("find") :
       LET lg == Append(log, Call("orm.answer", d))
           h == makeDbCompletionHandler("Failed to retrieve resource", d.err, d.result)
           result == h.result
           date == DateParse(req.headers)
       IN  IF h.err # Null
             THEN makeTaskCompletionHandler(lg, res, h.err, Undefined)
           ELSE IF Len(result.items) = 0
             THEN /\ log' = Append(lg, Call("postExecute", result))
                  /\ cur' = result
                  /\ pc' = "postExecute"
                  /\ UNCHANGED <<res, callbacks>>
           ELSE \E modified \in (IF req.headers # NoHeader
                                   THEN processIfModifiedSince(date, result.items)
                                   ELSE {TRUE}) :
                  IF ~modified
                    THEN makeTaskCompletionHandler(lg, res, HttpError(304, "Not Changed"),
                                                   Undefined)
                    ELSE /\ log' = lg \o <<Call("res.set", [value |-> setHeaders(result.items)]),
                                            Call("postExecute", result)>>
                         /\ res' = [res EXCEPT !.headers =
                                       With(@, "Last-Modified", setHeaders(result.items))]
                         /\ cur' = result
                         /\ pc' = "postExecute"
                         /\ UNCHANGED callbacks
  /\ UNCHANGED <<action, req, on, locals, _eventPrefix>>
  /\ UNCHANGED <<popVars, connVars>>

\* transform
getAll_onPostExecute ==
  /\ pc = "postExecute"
  /\ action = "getAll"
  /\ \E a \in PostExecuteAnswers(cur) :
       IF a.err # Null
         THEN makeTaskCompletionHandler(Answer(log, "postExecute", a), res, a.err, Undefined)
         ELSE LET result == envelope(_pluralize, a.value)
                  lg1 == Append(Answer(log, "postExecute", a), Call("envelope", result))
              IN  IF ~Truthy(locals.opts, "populate")
                    THEN makeTaskCompletionHandler(lg1, res, Null, result)
                    ELSE /\ log' = Append(lg1, Call("populate", a.value))
                         /\ cur' = result
                         /\ pc' = "populate"
                         /\ UNCHANGED <<res, callbacks>>
  /\ UNCHANGED <<action, req, on, locals, _eventPrefix>>
  /\ UNCHANGED <<popVars, connVars>>

getAll_onPopulate ==
  /\ pc = "populate"
  /\ action = "getAll"
  /\ \E a \in PopulateAnswers :
       makeTaskCompletionHandler(log, res, Null, a.details @@ cur)
  /\ UNCHANGED <<action, req, on, locals, _eventPrefix>>
  /\ UNCHANGED <<popVars, connVars>>

(***************************************************************************)
(* update                                                                  *)
(***************************************************************************)
update_execute ==
  /\ pc = "execute"
  /\ action = "update"
  /\ LET rcId == Get(req.params, _id)
         filter == "_id" :> rcId
         update == [set |-> req.body]
         options == [upsert |-> FALSE, new |-> TRUE]
     IN  /\ locals' = [filter |-> filter, update |-> update, options |-> options]
         /\ log' = log \o <<Call("prepareFilter", filter), Call("prepareOptions", options),
                            Call("prepareProjection", req)>>
  /\ pc' = "prepare"
  /\ UNCHANGED <<action, req, on, cur, res, callbacks, _eventPrefix>>
  /\ UNCHANGED <<popVars, connVars>>

update_onPrepared ==
  /\ pc = "prepare"
  /\ action = "update"
  /\ \E f \in FilterAnswers(locals.filter), o \in OptionsAnswers(locals.options),
        p \in ProjectionAnswers :
       LET lg == Answer(Answer(Answer(log, "prepareFilter", f),
                        "prepareOptions", o), "prepareProjection", p) IN
       IF ParallelErrors({f, o, p}) # {}
         THEN \E e \in ParallelErrors({f, o, p}) :
                makeTaskCompletionHandler(lg, res, e, Undefined)
         ELSE LET options == [upsert |-> locals.options.upsert, new |-> locals.options.new,
                              fields |-> p.value]
              IN  /\ log' = Append(lg, Call("orm", [method |-> "findOneAndUpdate",
                                                     filter |-> f.value,
                                                     update |-> locals.update,
                                                     options |-> options]))
                  /\ pc' = "db"
                  /\ UNCHANGED <<cur, res, callbacks>>
  /\ UNCHANGED <<action, req, on, locals, _eventPrefix>>
  /\ UNCHANGED <<popVars, connVars>>

update_onDb ==
  /\ pc = "db"
  /\ action = "update"
  /\ \E d \in DbAnswers("findOneAndUpdate") :
       LET lg == Append(log, Call("orm.answer", d))
           h == makeDbCompletionHandler("Failed to update resource", d.err, d.result)
           result == h.result
           lastModified == toUTCString(result.lm)
       IN  IF h.err # Null
             THEN makeTaskCompletionHandler(lg, res, h.err, Undefined)
             ELSE /\ log' = emit(lg, computeEventName("updated"), result)
                            \o <<Call("res.set", [value |-> lastModified]),
                                 Call("postExecute", result)>>
                  /\ res' = [res EXCEPT !.headers = With(@, "Last-Modified", lastModified)]
                  /\ cur' = result
                  /\ pc' = "postExecute"
                  /\ UNCHANGED callbacks
  /\ UNCHANGED <<action, req, on, locals, _eventPrefix>>
  /\ UNCHANGED <<popVars, connVars>>

update_onPostExecute ==
  /\ pc = "postExecute"
  /\ action = "update"
  /\ \E a \in PostExecuteAnswers(cur) :
       IF a.err # Null
         THEN makeTaskCompletionHandler(Answer(log, "postExecute", a), res, a.err, Undefined)
         ELSE LET result == envelope(_name, a.value)
              IN  makeTaskCompletionHandler(Append(Answer(log, "postExecute", a), Call("envelope", result)),
                                            res, Null, result)
  /\ UNCHANGED <<action, req, on, locals, _eventPrefix>>
  /\ UNCHANGED <<popVars, connVars>>

(***************************************************************************)
(* delete                                                                  *)
(***************************************************************************)
delete_execute ==
  /\ pc = "execute"
  /\ action = "delete"
  /\ LET rcId == Get(req.params, _id)
         filter == "_id" :> rcId
     IN  /\ locals' = [filter |-> filter]
         /\ log' = Append(log, Call("prepareFilter", filter))
  /\ pc' = "prepare"
  /\ UNCHANGED <<action, req, on, cur, res, callbacks, _eventPrefix>>
  /\ UNCHANGED <<popVars, connVars>>

delete_onPrepared ==
  /\ pc = "prepare"
  /\ action = "delete"
  /\ \E f \in FilterAnswers(locals.filter) :
       LET lg == Answer(log, "prepareFilter", f) IN
       IF f.err # Null
         THEN makeTaskCompletionHandler(lg, res, f.err, Undefined)
         ELSE /\ log' = Append(lg, Call("orm", [method |-> "findOneAndRemove",
                                                 filter |-> f.value]))
              /\ pc' = "db"
              /\ UNCHANGED <<cur, res, callbacks>>
  /\ UNCHANGED <<action, req, on, locals, _eventPrefix>>
  /\ UNCHANGED <<popVars, connVars>>

delete_onDb ==
  /\ pc = "db"
  /\ action = "delete"
  /\ \E d \in DbAnswers("findOneAndRemove") :
       LET lg == Append(log, Call("orm.answer", d))
           h == makeDbCompletionHandler("Failed to delete resource", d.err, d.result)
           result == h.result
       IN  IF h.err # Null
             THEN makeTaskCompletionHandler(lg, res, h.err, Undefined)
             ELSE /\ log' = Append(emit(lg, computeEventName("deleted"), result),
                                    Call("postExecute", result))
                  /\ cur' = result
                  /\ pc' = "postExecute"
                  /\ UNCHANGED <<res, callbacks>>
  /\ UNCHANGED <<action, req, on, locals, _eventPrefix>>
  /\ UNCHANGED <<popVars, connVars>>

delete_onPostExecute ==
  /\ pc = "postExecute"
  /\ action = "delete"
  /\ \E a \in PostExecuteAnswers(cur) :
       IF a.err # Null
         THEN makeTaskCompletionHandler(Answer(log, "postExecute", a), res, a.err, Undefined)
         ELSE makeTaskCompletionHandler(Append(Answer(log, "postExecute", a), Call("envelope", Bool(TRUE))),
                                        res, Null, Bool(TRUE))
  /\ UNCHANGED <<action, req, on, locals, _eventPrefix>>
  /\ UNCHANGED <<popVars, connVars>>

(***************************************************************************)
(* count                                                                   *)
(***************************************************************************)
count_execute ==
  /\ pc = "execute"
  /\ action = "count"
  /\ LET filter == req.query
     IN  /\ locals' = [filter |-> filter]
         /\ log' = Append(log, Call("prepareFilter", filter))
  /\ pc' = "prepare"
  /\ UNCHANGED <<action, req, on, cur, res, callbacks, _eventPrefix>>
  /\ UNCHANGED <<popVars, connVars>>

count_onPrepared ==
  /\ pc = "prepare"
  /\ action = "count"
  /\ \E f \in FilterAnswers(locals.filter) :
       LET lg == Answer(log, "prepareFilter", f) IN
       IF f.err # Null
         THEN makeTaskCompletionHandler(lg, res, f.err, Undefined)
         ELSE /\ log' = Append(lg, Call("orm", [method |-> "count", filter |-> f.value]))
              /\ pc' = "db"
              /\ UNCHANGED <<cur, res, callbacks>>
  /\ UNCHANGED <<action, req, on, locals, _eventPrefix>>
  /\ UNCHANGED <<popVars, connVars>>

count_onDb ==
  /\ pc = "db"
  /\ action = "count"
  /\ \E d \in DbAnswers("count") :
       LET lg == Append(log, Call("orm.answer", d))
           h == makeDbCompletionHandler("Failed to count resources", d.err, d.result)
           count == h.result
       IN  IF h.err # Null
             THEN makeTaskCompletionHandler(lg, res, h.err, Undefined)
             ELSE /\ log' = Append(lg, Call("postExecute", count))
                  /\ cur' = count
                  /\ pc' = "postExecute"
                  /\ UNCHANGED <<res, callbacks>>
  /\ UNCHANGED <<action, req, on, locals, _eventPrefix>>
  /\ UNCHANGED <<popVars, connVars>>

count_onPostExecute ==
  /\ pc = "postExecute"
  /\ action = "count"
  /\ \E a \in PostExecuteAnswers(cur) :
       IF a.err # Null
         THEN makeTaskCompletionHandler(Answer(log, "postExecute", a), res, a.err, Undefined)
         ELSE LET result == envelope("count", a.value)
              IN  makeTaskCompletionHandler(Append(Answer(log, "postExecute", a), Call("envelope", result)),
                                            res, Null, result)
  /\ UNCHANGED <<action, req, on, locals, _eventPrefix>>
  /\ UNCHANGED <<popVars, connVars>>

(***************************************************************************)
(* getFirst (src/unnamed/part_000)                                         *)
(***************************************************************************)
getFirst_execute ==
  /\ pc = "execute"
  /\ action = "getFirst"
  /\ LET filter == req.query
     IN  /\ locals' = [filter |-> filter]
         /\ log' = Append(log, Call("prepareFilter", filter))
  /\ pc' = "prepare"
  /\ UNCHANGED <<action, req, on, cur, res, callbacks, _eventPrefix>>
  /\ UNCHANGED <<popVars, connVars>>

getFirst_onPrepared ==
  /\ pc = "prepare"
  /\ action = "getFirst"
  /\ \E f \in FilterAnswers(locals.filter) :
       LET lg == Answer(log, "prepareFilter", f) IN
       IF f.err # Null
         THEN makeTaskCompletionHandler(lg, res, f.err, Undefined)
         ELSE LET given == Has(req.query, "options")
                  filter == IF given THEN omit(req.query, {"options"}) ELSE f.value
                  options == IF given THEN req.query["options"] ELSE EmptyObj
                  sort == IF Truthy(options, "sort") THEN "sort" :> options["sort"]
                                                     ELSE EmptyObj
              IN  /\ log' = Append(lg, Call("orm", [method |-> "find.limit(1)",
                                                     filter |-> filter,
                                                     projection |-> "__v" :> 0,
                                                     options |-> sort]))
                  /\ pc' = "db"
                  /\ UNCHANGED <<cur, res, callbacks>>
  /\ UNCHANGED <<action, req, on, locals, _eventPrefix>>
  /\ UNCHANGED <<popVars, connVars>>

getFirst_onDb ==
  /\ pc = "db"
  /\ action = "getFirst"
  /\ \E d \in DbAnswers("find.limit(1)") :
       LET lg == Append(log, Call("orm.answer", d))
           h == makeDbCompletionHandler("Failed to count resources", d.err, d.result)
           first == h.result
       IN  IF h.err # Null
             THEN makeTaskCompletionHandler(lg, res, h.err, Undefined)
             ELSE /\ log' = Append(lg, Call("postExecute", first))
                  /\ cur' = first
                  /\ pc' = "postExecute"
                  /\ UNCHANGED <<res, callbacks>>
  /\ UNCHANGED <<action, req, on, locals, _eventPrefix>>
  /\ UNCHANGED <<popVars, connVars>>

getFirst_onPostExecute ==
  /\ pc = "postExecute"
  /\ action = "getFirst"
  /\ \E a \in PostExecuteAnswers(cur) :
       IF a.err # Null
         THEN makeTaskCompletionHandler(Answer(log, "postExecute", a), res, a.err, Undefined)
         ELSE LET first == a.value
                  result == envelope(_name, IF Len(first.items) > 0 THEN first.items[1]
                                                                     ELSE Undefined)
              IN  makeTaskCompletionHandler(Append(Answer(log, "postExecute", a), Call("envelope", result)),
                                            res, Null, result)
  /\ UNCHANGED <<action, req, on, locals, _eventPrefix>>
  /\ UNCHANGED <<popVars, connVars>>

Next ==
  \/ Receive
  \/ checkIdThenAuthorize
  \/ create_validate
  \/ onAuthorize_validate
  \/ onAuthorize_done
  \/ create_execute
  \/ create_onPrepared
  \/ create_onDb
  \/ create_onPostExecute
  \/ get_execute
  \/ get_onPrepared
  \/ get_onDb
  \/ get_onPostExecute
  \/ get_onPopulate
  \/ getAll_execute
  \/ getAll_onPrepared
  \/ getAll_onDb
  \/ getAll_onPostExecute
  \/ getAll_onPopulate
  \/ update_execute
  \/ update_onPrepared
  \/ update_onDb
  \/ update_onPostExecute
  \/ delete_execute
  \/ delete_onPrepared
  \/ delete_onDb
  \/ delete_onPostExecute
  \/ count_execute
  \/ count_onPrepared
  \/ count_onDb
  \/ count_onPostExecute
  \/ getFirst_execute
  \/ getFirst_onPrepared
  \/ getFirst_onDb
  \/ getFirst_onPostExecute

Spec == Init /\ [][Next]_vars

(***************************************************************************)
(* get of src/unnamed/part_000.  The hooks run one after the other, and    *)
(* the projection is an object whose keys keep the order they were added   *)
(* in: a sequence of [key, value].                                         *)
(***************************************************************************)
MaxKeys == 2          \* most keys a projection returned by the hook has
ProjectionKeys == {"title", "author", "__v"}
ProjectionValues == {Num(0), Bool(FALSE), Num(1), Bool(TRUE)}

Keys(projection) == {projection[k].key : k \in 1..Len(projection)}
OrderedProjections ==
  {p \in SeqsUpTo([key : ProjectionKeys, value : ProjectionValues], MaxKeys) :
     Cardinality(Keys(p)) = Len(p)}

isProjectionExclusive_always(projection) == TRUE

isProjectionExclusive(projection) ==
  IF Len(projection) = 0 THEN TRUE
  ELSE LET value == projection[1].value
       IN  value = Bool(FALSE) \/ value = Num(0)

\* if (isProjectionExclusive (projection) && projection['__v'] === undefined)
\*   projection['__v'] = 0;
withoutVersion(projection) ==
  IF isProjectionExclusive(projection) /\ "__v" \notin Keys(projection)
    THEN Append(projection, [key |-> "__v", value |-> Num(0)])
    ELSE projection

\* on.prepareProjection || __onPrepareProjection
OrderedProjectionAnswers ==
  {Ok(p) : p \in OrderedProjections} \cup {Fail(HookError("prepareProjection"))}

get0_Receive ==
  /\ pc = "idle"
  /\ action' = "get.part_000"
  /\ req' \in [params : IdParams, headers : {NoHeader},
               query : {EmptyObj, "populate" :> "1"}, body : {Undefined}]
  /\ on' = {}
  /\ pc' = "validate"
  /\ locals' = EmptyObj
  /\ cur' = Undefined
  /\ log' = <<>>
  /\ res' = NewResponse
  /\ callbacks' = <<>>
  /\ UNCHANGED _eventPrefix
  /\ UNCHANGED <<popVars, connVars>>

get0_execute ==
  /\ pc = "execute"
  /\ action = "get.part_000"
  /\ LET rcId == Get(req.params, _id)
         filter == "_id" :> rcId
     IN  /\ log' = Append(log, Call("prepareFilter", filter))
         /\ locals' = [filter |-> filter]
  /\ pc' = "prepare"
  /\ UNCHANGED <<action, req, on, cur, res, callbacks, _eventPrefix>>
  /\ UNCHANGED <<popVars, connVars>>

get0_onFilter ==
  /\ pc = "prepare"
  /\ action = "get.part_000"
  /\ \E f \in FilterAnswers(locals.filter) :
       LET lg == Answer(log, "prepareFilter", f) IN
       IF f.err # Null
         THEN /\ makeTaskCompletionHandler(lg, res, f.err, Undefined)
              /\ UNCHANGED locals
         ELSE /\ log' = Append(lg, Call("prepareProjection", req))
              /\ locals' = [filter |-> f.value]
              /\ pc' = "projection"
              /\ UNCHANGED <<cur, res, callbacks>>
  /\ UNCHANGED <<action, req, on, _eventPrefix>>
  /\ UNCHANGED <<popVars, connVars>>

\* The callback given to onPrepareProjection ignores err: with an error the
\* projection is undefined and Object.keys (projection) throws.
get0_onProjection ==
  /\ pc = "projection"
  /\ action = "get.part_000"
  /\ \E p \in OrderedProjectionAnswers :
       LET lg == Answer(log, "prepareProjection", p) IN
       IF p.err # Null
         THEN /\ log' = Append(lg, Call("throw", [kind |-> "TypeError"]))
              /\ pc' = "thrown"
         ELSE /\ log' = Append(lg, Call("orm", [method |-> "findOne",
                                                filter |-> locals.filter,
                                                projection |-> withoutVersion(p.value)]))
              /\ pc' = "db"
  /\ UNCHANGED <<action, req, on, locals, cur, res, callbacks, _eventPrefix>>
  /\ UNCHANGED <<popVars, connVars>>

get0_onDb ==
  /\ pc = "db"
  /\ action = "get.part_000"
  /\ \E d \in DbAnswers("findOne") :
       LET lg == Append(log, Call("orm.answer", d))
           h == makeDbCompletionHandler("Failed to retrieve resource", d.err, d.result)
       IN  IF h.err # Null
             THEN makeTaskCompletionHandler(lg, res, h.err, Undefined)
             ELSE /\ log' = Append(lg, Call("postExecute", h.result))
                  /\ cur' = h.result
                  /\ pc' = "postExecute"
                  /\ UNCHANGED <<res, callbacks>>
  /\ UNCHANGED <<action, req, on, locals, _eventPrefix>>
  /\ UNCHANGED <<popVars, connVars>>

get0_onPostExecute ==
  /\ pc = "postExecute"
  /\ action = "get.part_000"
  /\ \E a \in PostExecuteAnswers(cur) :
       IF a.err # Null
         THEN makeTaskCompletionHandler(Answer(log, "postExecute", a), res, a.err, Undefined)
         ELSE LET result == envelope(_name, a.value)
                  lg1 == Append(Answer(log, "postExecute", a), Call("envelope", result))
              IN  IF ~Truthy(req.query, "populate")
                    THEN makeTaskCompletionHandler(lg1, res, Null, result)
                    ELSE /\ log' = Append(lg1, Call("populate", a.value))
                         /\ cur' = result
                         /\ pc' = "populate"
                         /\ UNCHANGED <<res, callbacks>>
  /\ UNCHANGED <<action, req, on, locals, _eventPrefix>>
  /\ UNCHANGED <<popVars, connVars>>

\* result = _.extend (result, details); the error of populate is ignored.
get0_onPopulate ==
  /\ pc = "populate"
  /\ action = "get.part_000"
  /\ \E a \in PopulateAnswers :
       makeTaskCompletionHandler(log, res, Null, a.details @@ cur)
  /\ UNCHANGED <<action, req, on, locals, _eventPrefix>>
  /\ UNCHANGED <<popVars, connVars>>

GetNext ==
  \/ get0_Receive
  \/ checkIdThenAuthorize
  \/ onAuthorize_done
  \/ get0_execute
  \/ get0_onFilter
  \/ get0_onProjection
  \/ get0_onDb
  \/ get0_onPostExecute
  \/ get0_onPopulate

GetSpec == Init /\ [][GetNext]_vars

(***************************************************************************)
(* Population (src/lib/populate/Population.js).  Documents of the model    *)
(* `book` reference other books by id: `next` holds one id and `links` an  *)
(* array of ids.  populate.populate is the environment: it answers each    *)
(* fetch later, with the documents asked for or with an error.             *)
(***************************************************************************)
PopIds == {"a", "b"}
MaxRefs == 2          \* longest array of ids a document holds
MaxCalls == 2         \* top-level populateElement / populateArray calls
MaxFetches == 3       \* fetches answered with documents are capped here

Ref(i) == [kind |-> "id", id |-> i]
Refs(s) == [kind |-> "ids", ids |-> s]
NextRefs == {Undefined} \cup {Ref(i) : i \in PopIds}
LinkRefs == {Undefined} \cup {Refs(s) : s \in SeqsUpTo(PopIds, MaxRefs)}

\* The documents with id i, and the documents handed to a top-level call.
Models(i) == {[kind |-> "model", id |-> i, next |-> n, links |-> l] :
                n \in NextRefs, l \in LinkRefs}
TopModels == {[kind |-> "model", next |-> n, links |-> l] :
                n \in NextRefs, l \in LinkRefs}
\* The documents of a top-level array carry the single reference only.
TopArrays == SeqsUpTo({m \in TopModels : m.links = Undefined}, Cardinality(PopIds))

\* this._populators: the model book is populated along two paths.
Paths == <<"next", "links">>
_populators == ("db:book" :> Paths)
PopulatorKeys == {"db:book", "db:other"}
getKeyFromModel == "db:" \o _name

Top(c) == [kind |-> "top", n |-> c]
Join(j) == [kind |-> "join", n |-> j]
FetchError(f) == [kind |-> "Error", from |-> "populate", n |-> f]

\* The Population object and the pending asynchronous calls, as one value.
Here ==
  [_ids |-> _ids, population |-> population, joins |-> joins,
   fetches |-> fetches, completions |-> completions, skipped |-> skipped]

\* cb (err): the callback of a top-level call, or the per-item callback of
\* an async.each / async.eachOf, whose final callback is called once: with
\* the first error, or with null when every item has called back.
RECURSIVE Complete(_, _, _)
Complete(s, cb, err) ==
  IF cb.kind = "top"
    THEN [s EXCEPT !.completions = Append(@, [call |-> cb.n, err |-> err])]
    ELSE LET j == s.joins[cb.n]
         IN  IF j.fired THEN s
             ELSE IF err # Null
               THEN Complete([s EXCEPT !.joins[cb.n].fired = TRUE], j.parent, err)
             ELSE IF j.need = 1
               THEN Complete([s EXCEPT !.joins[cb.n] = [j EXCEPT !.need = 0, !.fired = TRUE]],
                             j.parent, Null)
             ELSE [s EXCEPT !.joins[cb.n].need = @ - 1]

\* async.each (arr, ...) / async.eachOf (obj, ...) over n items.
Each(s, n, cb) ==
  [s EXCEPT !.joins = Append(@, [parent |-> cb, need |-> n, fired |-> FALSE])]

Coll(s) == IF Has(s._ids, _pluralize) THEN s._ids[_pluralize] ELSE <<>>
indexOf(coll, idStr) == \E k \in 1..Len(coll) : coll[k] = idStr

visitPopulateElement_again(coll, value) ==
  [coll |-> Append(coll, value.id), remaining |-> value, again |-> <<>>]

\* visitPopulateElement: the id is claimed unless it was claimed before.
visitPopulateElement(coll, value) ==
  IF indexOf(coll, value.id)
    THEN [coll |-> coll, remaining |-> Null, again |-> <<value.id>>]
    ELSE [coll |-> Append(coll, value.id), remaining |-> value, again |-> <<>>]

\* async.filter (value, firstTime): the ids seen for the first time.
RECURSIVE filterFirstTime(_, _, _, _)
filterFirstTime(coll, ids, result, again) ==
  IF ids = <<>> THEN [coll |-> coll, result |-> result, again |-> again]
  ELSE LET idStr == Head(ids)
           firstTime == ~indexOf(coll, idStr)
       IN  filterFirstTime(IF firstTime THEN Append(coll, idStr) ELSE coll,
                           Tail(ids),
                           IF firstTime THEN Append(result, idStr) ELSE result,
                           IF firstTime THEN again ELSE Append(again, idStr))

visitPopulateArray_forgets(coll, value) ==
  [coll |-> coll, remaining |-> value, again |-> <<>>]

visitPopulateArray(coll, value) ==
  LET f == filterFirstTime(coll, value.ids, <<>>, <<>>)
  IN  [coll |-> f.coll,
       remaining |-> IF Len(f.result) > 0 THEN Refs(f.result) ELSE Null,
       again |-> f.again]

\* The iteratee of async.eachOf in _populate, up to the call of
\* populate.populate.
populatePath(s, data, path, cb) ==
  LET value == data[path]
  IN  IF Falsy(value) THEN Complete(s, cb, Null)
      ELSE LET s1 == [s EXCEPT
                        !.population = IF Has(@, _pluralize) THEN @
                                       ELSE With(@, _pluralize, <<>>),
                        !._ids = IF Has(@, _pluralize) THEN @
                                 ELSE With(@, _pluralize, <<>>)]
               v == IF value.kind = "id"
                      THEN visitPopulateElement(Coll(s1), value)
                      ELSE visitPopulateArray(Coll(s1), value)
               s2 == [s1 EXCEPT !._ids[_pluralize] = v.coll,
                                !.skipped = @ \cup
                                  {[at |-> Len(s1.population[_pluralize])] :
                                     k \in 1..Len(v.again)}]
           IN  IF v.remaining = Null THEN Complete(s2, cb, Null)
               ELSE [s2 EXCEPT !.fetches =
                       Append(@, [remaining |-> v.remaining, cb |-> cb,
                                  state |-> "pending"])]

RECURSIVE eachOfPath(_, _, _, _)
eachOfPath(s, data, paths, cb) ==
  IF paths = <<>> THEN s
  ELSE eachOfPath(populatePath(s, data, Head(paths), cb), data, Tail(paths), cb)

_populate(s, populator, data, cb) ==
  IF Falsy(data) THEN Complete(s, cb, Null)
  ELSE LET s1 == Each(s, Len(populator), cb)
       IN  eachOfPath(s1, data, populator, Join(Len(s1.joins)))

populateElement(s, key, model, cb) ==
  IF ~Has(_populators, key) THEN Complete(s, cb, Null)
  ELSE _populate(s, _populators[key], model, cb)

RECURSIVE eachModel(_, _, _, _)
eachModel(s, populator, arr, cb) ==
  IF arr = <<>> THEN s
  ELSE eachModel(_populate(s, populator, Head(arr), cb), populator, Tail(arr), cb)

populateArray(s, key, arr, cb) ==
  IF ~Has(_populators, key) THEN Complete(s, cb, Null)
  ELSE IF arr = <<>> THEN Complete(s, cb, Null)
  ELSE LET s1 == Each(s, Len(arr), cb)
       IN  eachModel(s1, _populators[key], arr, Join(Len(s1.joins)))

\* population keeps of a fetched document its id and its single reference.
Stored(m) == [kind |-> "model", id |-> m.id, next |-> m.next]
Kept(model) ==
  IF model = Null THEN Null
  ELSE IF model.kind = "list"
    THEN List([k \in 1..Len(model.items) |-> Stored(model.items[k])])
  ELSE Stored(model)

onFetched_early(s, f, model) ==
  LET s1 == [s EXCEPT !.population[_pluralize] = Append(@, Kept(model)),
                      !.fetches[f].state = "done"]
      cb == s.fetches[f].cb
      key == getKeyFromModel
  IN  IF model.kind = "list"
        THEN populateArray(Complete(s1, cb, Null), key, model.items, cb)
        ELSE populateElement(Complete(s1, cb, Null), key, model, cb)

\* The task that follows populate.populate in the inner waterfall.
onFetched(s, f, model) ==
  LET s1 == [s EXCEPT !.population[_pluralize] = Append(@, Kept(model)),
                      !.fetches[f].state = "done"]
      cb == s.fetches[f].cb
      key == getKeyFromModel
  IN  IF model.kind = "list"
        THEN populateArray(s1, key, model.items, cb)
        ELSE populateElement(s1, key, model, cb)

\* What populate.populate (remaining, callback) can answer with.
RECURSIVE ModelLists(_)
ModelLists(ids) ==
  IF ids = <<>> THEN {<<>>}
  ELSE {<<m>> \o rest : m \in Models(Head(ids)), rest \in ModelLists(Tail(ids))}

FetchAnswers(remaining) ==
  IF remaining.kind = "id"
    THEN Models(remaining.id) \cup {Null}
    ELSE {List(l) : l \in ModelLists(remaining.ids)}

Become(s) ==
  /\ _ids' = s._ids
  /\ population' = s.population
  /\ joins' = s.joins
  /\ fetches' = s.fetches
  /\ completions' = s.completions
  /\ skipped' = s.skipped

PopInit ==
  /\ Population
  /\ NotStarted({})
  /\ pc = "idle"
  /\ action = "none"
  /\ req = [params |-> EmptyObj, headers |-> NoHeader, query |-> EmptyObj,
            body |-> Undefined]
  /\ on = {}
  /\ locals = EmptyObj
  /\ cur = Undefined
  /\ log = <<>>
  /\ res = NewResponse
  /\ callbacks = <<>>
  /\ _eventPrefix = "undefined"

\* A caller invokes population.populateElement (key, model, callback).
CallPopulateElement ==
  /\ ncalls < MaxCalls
  /\ ncalls' = ncalls + 1
  /\ \E key \in PopulatorKeys :
     \E model \in (IF Has(_populators, key) THEN TopModels ELSE {}) \cup {Null} :
       Become(populateElement(Here, key, model, Top(ncalls + 1)))
  /\ UNCHANGED <<ctlVars, connVars>>

\* A caller invokes population.populateArray (key, arr, callback).
CallPopulateArray ==
  /\ ncalls < MaxCalls
  /\ ncalls' = ncalls + 1
  /\ \E key \in PopulatorKeys :
     \E arr \in (IF Has(_populators, key) THEN TopArrays ELSE {<<>>}) :
       Become(populateArray(Here, key, arr, Top(ncalls + 1)))
  /\ UNCHANGED <<ctlVars, connVars>>

\* populate.populate answers as long as no more than MaxFetches fetches
\* were issued.
Answering == Len(fetches) <= MaxFetches

\* populate.populate calls back with the documents it was asked for.
FetchSucceeds ==
  /\ Answering
  /\ \E f \in 1..Len(fetches) :
       /\ fetches[f].state = "pending"
       /\ \E model \in FetchAnswers(fetches[f].remaining) :
            Become(onFetched(Here, f, model))
  /\ UNCHANGED <<ncalls, ctlVars, connVars>>

\* populate.populate calls back with an error.
FetchFails ==
  /\ Answering
  /\ \E f \in 1..Len(fetches) :
       /\ fetches[f].state = "pending"
       /\ Become(Complete([Here EXCEPT !.fetches[f].state = "failed"],
                          fetches[f].cb, FetchError(f)))
  /\ UNCHANGED <<ncalls, ctlVars, connVars>>

PopNext ==
  \/ CallPopulateElement
  \/ CallPopulateArray
  \/ FetchSucceeds
  \/ FetchFails

PopSpec == PopInit /\ [][PopNext]_vars

(***************************************************************************)
(* The connection manager and the app.start listener.  The only source is  *)
(* the unit test of the listener: it opens every connection the manager    *)
(* holds; a connection that is being opened is connecting, then connected, *)
(* or disconnected again when the open fails.                              *)
(***************************************************************************)
Disconnected == 0
Connected == 1
Connecting == 2
Disconnecting == 3
ConnNames == {"$default", "users", "logs", "audit"}

ConnInit ==
  /\ Population
  /\ \E names \in SUBSET ConnNames : NotStarted(names)
  /\ pc = "idle"
  /\ action = "none"
  /\ req = [params |-> EmptyObj, headers |-> NoHeader, query |-> EmptyObj,
            body |-> Undefined]
  /\ on = {}
  /\ locals = EmptyObj
  /\ cur = Undefined
  /\ log = <<>>
  /\ res = NewResponse
  /\ callbacks = <<>>
  /\ _eventPrefix = "undefined"

openConnections_defaultOnly(conns) ==
  [c \in DOMAIN conns |-> IF c = "$default" THEN Connecting ELSE conns[c]]

\* The listener opens every connection of the manager.
openConnections(conns) == [c \in DOMAIN conns |-> Connecting]

\* The application starts: the app.start listener runs.
AppStart ==
  /\ listener = "idle"
  /\ listener' = "opening"
  /\ connections' = openConnections(connections)
  /\ UNCHANGED <<ctlVars, popVars>>

\* A connection that was being opened is open.
ConnectionOpened ==
  /\ \E c \in DOMAIN connections :
       /\ connections[c] = Connecting
       /\ connections' = [connections EXCEPT ![c] = Connected]
  /\ UNCHANGED <<listener, ctlVars, popVars>>

\* Opening a connection fails: the listener reports the error.
ConnectionFailed ==
  /\ \E c \in DOMAIN connections :
       /\ connections[c] = Connecting
       /\ connections' = [connections EXCEPT ![c] = Disconnected]
  /\ listener' = IF listener = "opening" THEN "failed" ELSE listener
  /\ UNCHANGED <<ctlVars, popVars>>

\* Every open has called back without an error: the listener has run.
ListenerDone ==
  /\ listener = "opening"
  /\ \A c \in DOMAIN connections : connections[c] # Connecting
  /\ listener' = "done"
  /\ UNCHANGED <<connections, ctlVars, popVars>>

ConnNext ==
  \/ AppStart
  \/ ConnectionOpened
  \/ ConnectionFailed
  \/ ListenerDone

ConnSpec == ConnInit /\ [][ConnNext]_vars

(***************************************************************************)
(* Reading the log.                                                        *)
(***************************************************************************)
Positions(name) == {i \in 1..Len(log) : log[i].call = name}
Called(name) == Positions(name) # {}
Count(name) == Cardinality(Positions(name))
Before(a, b) == \A j \in Positions(b) : \E i \in Positions(a) : i < j

\* The errors the framework callback of execute received.
ExecuteErrors == SelectSeq(callbacks, LAMBDA c : c.phase = "execute")
ValidateResults == SelectSeq(callbacks, LAMBDA c : c.phase = "validate")
EndedWith(e) == pc = "done" /\ ExecuteErrors = <<[phase |-> "execute", err |-> e]>>
Sent200 == res.sent > 0

\* What the ORM answered, once it has.
DbAnswered == Called("orm.answer")
DbAnswer == log[CHOOSE i \in Positions("orm.answer") : TRUE].arg
DbFailed == DbAnswered /\ DbAnswer.err
DbFalsy == DbAnswered /\ ~DbAnswer.err /\ Falsy(DbAnswer.result)
DbFound == DbAnswered /\ ~DbAnswer.err /\ ~Falsy(DbAnswer.result)

PostExecuteAnswered == Called("postExecute.answer")
PostExecuteAnswer == log[CHOOSE i \in Positions("postExecute.answer") : TRUE].arg

ErrorMessage ==
  [a \in {"create", "get", "getAll", "update", "delete", "count"} |->
     CASE a = "create" -> "Failed to create resource"
       [] a \in {"get", "getAll"} -> "Failed to retrieve resource"
       [] a = "update" -> "Failed to update resource"
       [] a = "delete" -> "Failed to delete resource"
       [] a = "count" -> "Failed to count resources"]

(***************************************************************************)
(* C1: in create, get, getAll, update, delete and count, an error of the   *)
(* ORM call ends the pipeline with HttpError 400 and the action's message, *)
(* and a falsy result without error ends it with HttpError 404 'Not        *)
(* Found'; in both cases no event is emitted, postExecute is not invoked   *)
(* and no 200 response is sent.                                            *)
(***************************************************************************)
C1_DbErrorMapping ==
  action \in DOMAIN ErrorMessage =>
    /\ DbFailed => EndedWith(HttpError(400, ErrorMessage[action]))
    /\ DbFalsy => EndedWith(HttpError(404, "Not Found"))
    /\ DbFailed \/ DbFalsy =>
         /\ ~Called("emit")
         /\ ~Called("postExecute")
         /\ ~Sent200
         /\ log[Len(log)].call = "orm.answer"

C1_Witness ==
  /\ action = "count"
  /\ DbFalsy
  /\ DbAnswer.result = Num(0)
  /\ EndedWith(HttpError(404, "Not Found"))

(***************************************************************************)
(* C2: in get, an If-Modified-Since date that is not earlier than the      *)
(* document's last-modified time ends the pipeline with HttpError 304 'Not *)
(* Changed' without postExecute, population or a 200 response; without the *)
(* header, or with a strictly earlier date, postExecute is invoked and the *)
(* request ends with a 200 response unless postExecute itself fails.       *)
(***************************************************************************)
C2_GetNotChanged ==
  action = "get" /\ DbFound =>
    LET lastModified == DbAnswer.result.lm
        h == req.headers
    IN  /\ h.kind = "date" /\ h.t >= lastModified =>
             /\ EndedWith(HttpError(304, "Not Changed"))
             /\ ~Called("postExecute")
             /\ ~Called("populate")
             /\ ~Sent200
        /\ h.kind = "absent" \/ (h.kind = "date" /\ h.t < lastModified) =>
             /\ Called("postExecute")
             /\ pc = "done" =>
                  \/ res.status = 200 /\ res.sent = 1 /\ ExecuteErrors = <<>>
                  \/ EndedWith(HookError("postExecute")) /\ ~Sent200

C2_Witness ==
  /\ action = "get"
  /\ DbFound
  /\ req.headers.kind = "date"
  /\ req.headers.t = DbAnswer.result.lm
  /\ EndedWith(HttpError(304, "Not Changed"))

(***************************************************************************)
(* C3: in getAll with an If-Modified-Since date and a non-empty result     *)
(* list, the pipeline ends with HttpError 304 'Not Changed' exactly when   *)
(* no item was modified strictly later than the date; an empty list never  *)
(* ends with 304 and is passed on to postExecute whatever the header is.   *)
(***************************************************************************)
Is304 == \E i \in 1..Len(ExecuteErrors) : ExecuteErrors[i].err = HttpError(304, "Not Changed")

C3_GetAllNotChanged ==
  action = "getAll" /\ DbFound =>
    LET items == DbAnswer.result.items
        h == req.headers
    IN  /\ Len(items) > 0 /\ h.kind = "date" =>
             (Is304 <=> \A i \in 1..Len(items) : ~(items[i].lm > h.t))
        /\ Len(items) = 0 =>
             /\ ~Is304
             /\ \E i \in Positions("postExecute") : log[i].arg = List(<<>>)

C3_Witness ==
  /\ action = "getAll"
  /\ DbFound
  /\ Len(DbAnswer.result.items) = 2
  /\ req.headers = DateHeader(1)
  /\ DbAnswer.result.items[1].lm = 0
  /\ DbAnswer.result.items[2].lm = 1
  /\ EndedWith(HttpError(304, "Not Changed"))

(***************************************************************************)
(* C4: in the validate step of get, update and delete a request without    *)
(* the resource id ends with HttpError 400 'Missing resource id' and       *)
(* neither the schema validation nor the authorize hook is invoked; with   *)
(* the id, the next step is invoked exactly once with the same request.    *)
(***************************************************************************)
C4_CheckId ==
  action \in {"get", "update", "delete"} /\ pc # "validate" =>
    IF ~Truthy(req.params, _id)
      THEN /\ pc = "done"
           /\ callbacks = <<[phase |-> "validate",
                             err |-> HttpError(400, "Missing resource id")]>>
           /\ ~Called("next")
           /\ ~Called("checkBody")
           /\ ~Called("authorize")
      ELSE /\ Count("next") = 1
           /\ \A i \in Positions("next") : log[i].arg = req
           /\ Len(ValidateResults) <= 1
           /\ IF action = "update" THEN Count("checkBody") = 1 /\ Before("next", "checkBody")
                                   ELSE Count("authorize") = 1 /\ Before("next", "authorize")

C4_Witness ==
  /\ action = "update"
  /\ ~Truthy(req.params, _id)
  /\ pc = "done"
  /\ callbacks = <<[phase |-> "validate", err |-> HttpError(400, "Missing resource id")]>>
(***************************************************************************)
(* C5: in getAll without a prepareOptions hook, the skip, limit and sort   *)
(* values of the query string are exactly the options model.find is called *)
(* with.                                                                   *)
(***************************************************************************)
RequestedOptions ==
  [k \in {x \in {"skip", "limit", "sort"} : Truthy(locals.opts, x)} |-> locals.opts[k]]

C5_QueryOptionsReachFind ==
  action = "getAll" /\ "prepareOptions" \notin on /\ Called("orm") =>
    \A i \in Positions("orm") : log[i].arg.options = RequestedOptions

(***************************************************************************)
(* C6: in create, update and delete the event is emitted exactly once,     *)
(* with the result, for a request whose ORM call gave a truthy result, and *)
(* never when a prepare hook failed or the ORM call ended in 400 or 404;   *)
(* it is emitted before postExecute is invoked, hence also when            *)
(* postExecute fails.                                                      *)
(***************************************************************************)
PrepareErrors ==
  {HookError(h) : h \in {"prepareDocument", "prepareFilter", "prepareProjection",
                         "prepareOptions"}}

C6_EmitOnce ==
  action \in {"create", "update", "delete"} =>
    /\ Count("emit") = (IF DbFound THEN 1 ELSE 0)
    /\ \A i \in Positions("emit") : log[i].arg.payload = DbAnswer.result
    /\ Before("emit", "postExecute")
    /\ pc = "done" /\ ExecuteErrors # <<>> /\ ExecuteErrors[1].err \in PrepareErrors =>
         ~DbAnswered /\ Count("emit") = 0
    /\ DbFailed \/ DbFalsy => Count("emit") = 0
    /\ EndedWith(HookError("postExecute")) => Count("emit") = 1

C6_Witness ==
  /\ action = "delete"
  /\ EndedWith(HookError("postExecute"))
  /\ Count("emit") = 1
  /\ ~Sent200

(***************************************************************************)
(* C7 as stated: in create and update the event is emitted only after the  *)
(* JSON envelope has been built.                                           *)
(***************************************************************************)
C7_EmitAfterEnvelope ==
  action \in {"create", "update"} => Before("envelope", "emit")

(***************************************************************************)
(* C7 amended: in create and update the stages of one request happen in    *)
(* the order prepare hook(s), ORM method, emission of the event,           *)
(* postExecute hook, JSON envelope; the event is emitted before the        *)
(* envelope is built.                                                      *)
(***************************************************************************)
C7_StageOrder ==
  action \in {"create", "update"} =>
    /\ action = "create" => Before("prepareDocument", "orm")
    /\ action = "update" =>
         /\ Before("prepareFilter", "orm")
         /\ Before("prepareOptions", "orm")
         /\ Before("prepareProjection", "orm")
    /\ Before("orm", "emit")
    /\ Before("emit", "postExecute")
    /\ Before("postExecute", "envelope")
    /\ Before("emit", "envelope")
    /\ \A i \in Positions("emit"), j \in Positions("envelope") : i < j

C7_Witness ==
  /\ action = "update"
  /\ pc = "done"
  /\ Sent200
  /\ \E i \in Positions("emit"), j \in Positions("envelope") : i < j

(***************************************************************************)
(* C8: without population the body of the 200 response is {<name>: data}   *)
(* for create, get and update, {<plural name>: data} for getAll,           *)
(* {count: data} for count, where data is what postExecute passed on, and  *)
(* true for delete whatever postExecute passed on.                         *)
(***************************************************************************)
PopulateRequested ==
  \/ action = "get" /\ Truthy(req.query, "populate")
  \/ action = "getAll" /\ Truthy(locals.opts, "populate")

C8_ResponseBody ==
  Sent200 /\ action \in DOMAIN ErrorMessage /\ ~PopulateRequested =>
    LET data == PostExecuteAnswer.value
    IN  /\ PostExecuteAnswered
        /\ res.status = 200
        /\ res.sent = 1
        /\ res.body = CASE action \in {"create", "get", "update"} -> ("book" :> data)
                        [] action = "getAll" -> ("books" :> data)
                        [] action = "count" -> ("count" :> data)
                        [] action = "delete" -> Bool(TRUE)

C8_Witness ==
  /\ action = "delete"
  /\ Sent200
  /\ PostExecuteAnswer.value = [kind |-> "custom"]
  /\ res.body = Bool(TRUE)

(***************************************************************************)
(* C9: getFirst ends with HttpError 404 'Not Found' when no document       *)
(* matches the filter, and sends a 200 response only when a first matching *)
(* document exists.                                                        *)
(***************************************************************************)
NoMatch ==
  /\ DbAnswered
  /\ ~DbAnswer.err
  /\ DbAnswer.result.kind = "list"
  /\ Len(DbAnswer.result.items) = 0

C9_GetFirstNotFound ==
  action = "getFirst" /\ NoMatch =>
    /\ ~Sent200
    /\ pc = "done" => EndedWith(HttpError(404, "Not Found"))

(***************************************************************************)
(* C10: in the validate step of create and update the authorize hook is    *)
(* invoked only after the schema validation reported no errors; when it    *)
(* reports errors the callback receives them and authorize is never        *)
(* invoked.  For update the order is id check, schema validation,          *)
(* authorize.                                                              *)
(***************************************************************************)
C10_ValidateOrder ==
  action \in {"create", "update"} =>
    /\ \A j \in Positions("authorize") :
         \E i \in Positions("validationErrors.answer") :
           i < j /\ log[i].arg.errors = Null
    /\ \A i \in Positions("validationErrors.answer") :
         /\ \E k \in Positions("checkBody") : k < i
         /\ log[i].arg.errors # Null =>
              /\ pc = "done"
              /\ callbacks = <<[phase |-> "validate", err |-> log[i].arg.errors]>>
              /\ ~Called("authorize")
    /\ action = "update" =>
         /\ Before("next", "checkBody")
         /\ Before("checkBody", "authorize")
         /\ Called("checkBody") => Truthy(req.params, _id)

C10_Witness ==
  /\ action = "update"
  /\ pc = "done"
  /\ Called("next")
  /\ callbacks = <<[phase |-> "validate", err |-> ValidationErrors]>>
  /\ ~Called("authorize")
(***************************************************************************)
(* C12: computeEventName (action) is '<eventPrefix>.<name>.<action>' for a *)
(* non-empty eventPrefix and '<name>.<action>' when eventPrefix is absent  *)
(* or empty; create, update and delete emit under the names of 'created',  *)
(* 'updated' and 'deleted'.                                                *)
(***************************************************************************)
C12_EventName ==
  \A i \in Positions("emit") :
    LET suffix == CASE action = "create" -> "book.created"
                    [] action = "update" -> "book.updated"
                    [] action = "delete" -> "book.deleted"
    IN  /\ action \in {"create", "update", "delete"}
        /\ log[i].arg.event = (IF _eventPrefix = "app" THEN "app." \o suffix ELSE suffix)

C12_Witness ==
  /\ _eventPrefix = ""
  /\ action = "update"
  /\ \E i \in Positions("emit") : log[i].arg.event = "book.updated"

(***************************************************************************)
(* C14: an execute pipeline whose hooks and ORM calls each call back once  *)
(* ends in exactly one outcome, once: either the 200 response is sent and  *)
(* the framework callback is never called, or the callback is called with  *)
(* an error and no response is sent; a pipeline that has not ended has     *)
(* produced neither and can take a step.                                   *)
(***************************************************************************)
Validated == ValidateResults = <<[phase |-> "validate", err |-> Null]>>

C14_OneOutcome ==
  action \in DOMAIN ErrorMessage =>
    /\ res.sent + Len(ExecuteErrors) <= 1
    /\ \A i \in 1..Len(ExecuteErrors) : ExecuteErrors[i].err # Null
    /\ Sent200 => res.status = 200 /\ pc = "done"
    /\ ExecuteErrors # <<>> => res.status = 0 /\ pc = "done"
    /\ pc = "done" /\ Validated => res.sent + Len(ExecuteErrors) = 1
    /\ pc \in {"execute", "prepare", "db", "postExecute", "populate"} =>
         /\ res.sent + Len(ExecuteErrors) = 0
         /\ ENABLED Next

C14_Witness ==
  /\ action = "getAll"
  /\ pc = "done"
  /\ Called("populate")
  /\ res.sent = 1
  /\ ExecuteErrors = <<>>
(***************************************************************************)
(* C15 as stated: when a prepareFilter, prepareProjection, prepareOptions  *)
(* or prepareDocument hook reports an error the ORM call is never issued,  *)
(* no event is emitted and the framework callback receives the hook's      *)
(* error unchanged; the same holds for an error of postExecute, except     *)
(* that the ORM call has already happened.                                 *)
(***************************************************************************)
PrepareFailures ==
  {i \in 1..Len(log) :
     /\ log[i].call \in {"prepareFilter.answer", "prepareProjection.answer",
                         "prepareOptions.answer", "prepareDocument.answer"}
     /\ log[i].arg.err # Null}

PostExecuteFailed == PostExecuteAnswered /\ PostExecuteAnswer.err # Null

PrepareErrorPassedOn ==
  PrepareFailures # {} =>
    /\ ~Called("orm")
    /\ ~Called("emit")
    /\ ~Sent200
    /\ pc = "done"
    /\ Len(ExecuteErrors) = 1
    /\ ExecuteErrors[1].err \in {log[i].arg.err : i \in PrepareFailures}

C15_HookErrorNoEvent ==
  action \in DOMAIN ErrorMessage =>
    /\ PrepareErrorPassedOn
    /\ PostExecuteFailed =>
         /\ Called("orm")
         /\ ~Called("emit")
         /\ ~Sent200
         /\ EndedWith(PostExecuteAnswer.err)

(***************************************************************************)
(* C15 amended: as above, except that for an error of postExecute the ORM  *)
(* call has already happened and, in create, update and delete, the event  *)
(* has already been emitted.                                               *)
(***************************************************************************)
C15_HookErrorPassedOn ==
  action \in DOMAIN ErrorMessage =>
    /\ PrepareErrorPassedOn
    /\ PostExecuteFailed =>
         /\ Called("orm")
         /\ Called("emit") <=> action \in {"create", "update", "delete"}
         /\ ~Sent200
         /\ EndedWith(PostExecuteAnswer.err)

C15_Witness ==
  /\ action = "update"
  /\ \E i \in PrepareFailures : log[i].call = "prepareOptions.answer"
  /\ EndedWith(HookError("prepareOptions"))
  /\ ~Called("orm")

(***************************************************************************)
(* C19: in getAll, when the request does not end in 304 and the result     *)
(* list is not empty, the Last-Modified header is set exactly once, before *)
(* postExecute is invoked, to the UTC string of the latest last-modified   *)
(* time of the list, whatever the order of its items.                      *)
(***************************************************************************)
Latest(items) ==
  CHOOSE t \in {items[i].lm : i \in 1..Len(items)} :
    \A i \in 1..Len(items) : items[i].lm <= t

C19_LastModifiedHeader ==
  action = "getAll" /\ DbFound /\ Len(DbAnswer.result.items) > 0 /\ ~Is304 =>
    /\ Count("res.set") = 1
    /\ Count("postExecute") = 1
    /\ Before("res.set", "postExecute")
    /\ Has(res.headers, "Last-Modified")
    /\ res.headers["Last-Modified"] =
         [utc |-> Latest(DbAnswer.result.items) \div TicksPerSecond]

C19_Witness ==
  /\ action = "getAll"
  /\ DbFound
  /\ DbAnswer.result.items = <<Doc(MaxTime), Doc(0)>>
  /\ Called("postExecute")
  /\ res.headers["Last-Modified"] = [utc |-> MaxTime \div TicksPerSecond]

(***************************************************************************)
(* C20: in getFirst the filter the ORM find is called with is the filter   *)
(* the prepareFilter hook returned, without the key 'options', whether the *)
(* query string carries options or not.                                    *)
(***************************************************************************)
C20_HookFilterReachesFind ==
  action = "getFirst" =>
    \A i \in Positions("orm"), j \in Positions("prepareFilter.answer") :
      /\ ~Has(log[i].arg.filter, "options")
      /\ log[i].arg.filter = omit(log[j].arg.value, {"options"})
(***************************************************************************)
(* Reading the state of a Population.                                      *)
(***************************************************************************)
IdsOf(remaining) == IF remaining.kind = "id" THEN <<remaining.id>> ELSE remaining.ids
\* The positions <<fetch, index>> of the ids handed to populate.populate.
Handed ==
  UNION {{<<f, i>> : i \in 1..Len(IdsOf(fetches[f].remaining))} : f \in 1..Len(fetches)}
HandedId(p) == IdsOf(fetches[p[1]].remaining)[p[2]]
Claimed == Coll(Here)
Pushed == IF Has(population, _pluralize) THEN population[_pluralize] ELSE <<>>
CalledBack(c) == \E k \in 1..Len(completions) : completions[k].call = c
Failed == {f \in 1..Len(fetches) : fetches[f].state = "failed"}
Pending == {f \in 1..Len(fetches) : fetches[f].state = "pending"}

\* The documents of the fetch results pushed so far.
PushedModels ==
  UNION {IF Pushed[k] = Null THEN {}
         ELSE IF Pushed[k].kind = "list"
           THEN {Pushed[k].items[i] : i \in 1..Len(Pushed[k].items)}
         ELSE {Pushed[k]} : k \in 1..Len(Pushed)}

(***************************************************************************)
(* C11: over any sequence of top-level calls, nested and interleaved, the  *)
(* ids handed to populate.populate are pairwise distinct, _ids[plural]     *)
(* never holds an id twice, and no fetch is issued without a new id: every *)
(* fetch carries at least one id, and every id carried was claimed for it. *)
(***************************************************************************)
C11_FetchedOnce ==
  /\ \A p, q \in Handed : p # q => HandedId(p) # HandedId(q)
  /\ \A i, j \in 1..Len(Claimed) : i # j => Claimed[i] # Claimed[j]
  /\ \A f \in 1..Len(fetches) : Len(IdsOf(fetches[f].remaining)) > 0
  /\ {HandedId(p) : p \in Handed} = {Claimed[i] : i \in 1..Len(Claimed)}
  /\ Len(fetches) <= Cardinality(PopIds)

C11_Witness ==
  /\ ncalls = 2
  /\ Len(fetches) = 2
  /\ fetches[1].cb # fetches[2].cb
  /\ Pending = {1, 2}
  /\ \E k \in skipped : k.at = 0

\* The callback cb leads to the callback of top-level call c through
\* async.each / async.eachOf calls that have not called back yet.
RECURSIVE Reaches(_, _)
Reaches(cb, c) ==
  IF cb.kind = "top" THEN cb.n = c
  ELSE ~joins[cb.n].fired /\ Reaches(joins[cb.n].parent, c)

\* What is left to do: calls to make, fetches to answer, ids to claim.
Measure ==
  (MaxCalls - ncalls) + Cardinality(Pending) + (Cardinality(PopIds) - Len(Claimed))

(***************************************************************************)
(* C16: a top-level call terminates when every fetch calls back, also when *)
(* the references form a cycle.  Every call that was not called back waits *)
(* for a fetch that is still to be answered, every step leaves less to do  *)
(* (calls to make, fetches to answer, ids to claim), and no document is    *)
(* fetched, and so descended into, a second time.                          *)
(***************************************************************************)
C16_Terminates ==
  /\ [](\A c \in 1..ncalls :
          ~CalledBack(c) => Answering /\ \E f \in Pending : Reaches(fetches[f].cb, c))
  /\ [](Measure >= 0)
  /\ [][Measure' < Measure]_vars
  /\ [](\A m, n \in PushedModels : m.id = n.id => m = n)

C16_Witness ==
  /\ ncalls = 1
  /\ completions = <<[call |-> 1, err |-> Null]>>
  /\ Pushed = <<[kind |-> "model", id |-> "a", next |-> Ref("b")],
                [kind |-> "model", id |-> "b", next |-> Ref("a")]>>
  /\ skipped = {[at |-> 2]}

(***************************************************************************)
(* C17: for a single top-level call in which every fetch succeeds, when    *)
(* the callback has fired no fetch is outstanding and the result of every  *)
(* fetch, so of every id in _ids, has been pushed into population.         *)
(***************************************************************************)
C17_NothingOutstanding ==
  ncalls = 1 /\ Failed = {} /\ completions # <<>> =>
    /\ completions = <<[call |-> 1, err |-> Null]>>
    /\ Pending = {}
    /\ Len(Pushed) = Len(fetches)
    /\ \A f \in 1..Len(fetches) :
         \E k \in 1..Len(Pushed) :
           \/ Pushed[k] = Null /\ fetches[f].remaining.kind = "id"
           \/ /\ Pushed[k] # Null
              /\ Pushed[k].kind = "model"
              /\ fetches[f].remaining = Ref(Pushed[k].id)
           \/ /\ Pushed[k] # Null
              /\ Pushed[k].kind = "list"
              /\ fetches[f].remaining =
                   Refs([i \in 1..Len(Pushed[k].items) |-> Pushed[k].items[i].id])

C17_Witness ==
  /\ ncalls = 1
  /\ completions = <<[call |-> 1, err |-> Null]>>
  /\ Len(fetches) = 2
  /\ Failed = {}
  /\ fetches[1].cb # fetches[2].cb
  /\ \E k \in skipped : k.at = 0

(***************************************************************************)
(* C18: the callback of a top-level call is called exactly once, with the  *)
(* error of a failed fetch when a fetch failed, and population is not      *)
(* modified any more after the callback has fired.                         *)
(***************************************************************************)
C18_QuietAfterCallback ==
  /\ [](\A k, l \in 1..Len(completions) :
          /\ k # l => completions[k].call # completions[l].call
          /\ completions[k].err # Null =>
               \E f \in Failed : completions[k].err = FetchError(f))
  /\ [][ncalls = 1 /\ ncalls' = 1 /\ completions # <<>> => population' = population]_vars
Excludes(projection) ==
  \A k \in 1..Len(projection) : projection[k].value \in {Bool(FALSE), Num(0)}
Includes(projection) ==
  /\ Len(projection) > 0
  /\ \A k \in 1..Len(projection) : projection[k].value \in {Bool(TRUE), Num(1)}
Mixed(projection) == ~Excludes(projection) /\ ~Includes(projection)

C21_VersionKeptOut ==
  action = "get.part_000" =>
    \A i \in Positions("orm"), j \in Positions("prepareProjection.answer") :
      LET returned == log[j].arg.value
          passed == log[i].arg.projection
      IN  /\ Excludes(returned) /\ "__v" \notin Keys(returned) =>
               passed = returned \o <<[key |-> "__v", value |-> Num(0)]>>
          /\ Includes(returned) => passed = returned
          /\ ~Mixed(returned) => ~Mixed(passed)

C21_Witness ==
  /\ action = "get.part_000"
  /\ \E i \in Positions("orm"), j \in Positions("prepareProjection.answer") :
       /\ log[j].arg.value = <<[key |-> "title", value |-> Bool(FALSE)],
                               [key |-> "author", value |-> Num(0)]>>
       /\ log[i].arg.projection = <<[key |-> "title", value |-> Bool(FALSE)],
                                    [key |-> "author", value |-> Num(0)],
                                    [key |-> "__v", value |-> Num(0)]>>
  /\ Sent200

====
